---- MODULE Spec2Model ----
(***************************************************************************)
(* Model of src/src/mlx_maze_viewer.py: the path builder, the segment      *)
(* renderer, the redraw pipeline and the animation controller driven by    *)
(* key_handler and loop_hook.                                              *)
(*                                                                         *)
(* Draw calls are recorded at the granularity of one record per batch of   *)
(* mlx_put_image_to_window calls: one per margin fill, one per tile, one   *)
(* per path segment (with the end points handed to draw_line_bresenham)    *)
(* and one per portal marker.                                              *)
(* Time is an integer clock; animation_speed (0.01 s) is 2 clock units.    *)
(***************************************************************************)
EXTENDS Integers, Sequences, FiniteSets, TLC

\* ------------------------------------------------------------------ bounds
MaxTime == 15
MaxHandles == 2
MaxMoves == 3
MaxCoord == 3
MaxThickness == 5

\* ------------------------------------------------------- program constants
MARGIN == 2
TILE_SIZE == 32
COLOR_CYCLE == <<"green", "pink", "rainbow">>
PORTAL_OUTER_RADIUS == 10
LINE_THICKNESS == 4
animation_speed == 2
KEY_ESC == 65307
KEY_C == 99
KEY_S == 115

\* the keys delivered to key_handler: ESC, 'c', 's' and one unbound key ('a')
Keycodes == {KEY_ESC, KEY_C, KEY_S, 97}

\* The maze matrix handed to the viewer (load_maze_from_file's first result).
matrix == << <<9, 5, 3>>, <<10, 15, 10>>, <<12, 5, 6>> >>

\* The (entry, exit, moves) triples the viewer is started with.
Mazes ==
  { [entry |-> <<0, 0>>, exit_ |-> <<2, 2>>, moves |-> <<"E", "E", "S", "S">>],
    [entry |-> <<1, 0>>, exit_ |-> <<0, 1>>, moves |-> <<"N", "X", "E">>],
    [entry |-> <<0, 0>>, exit_ |-> <<0, 1>>, moves |-> <<"E">>],
    [entry |-> <<1, 1>>, exit_ |-> <<1, 1>>, moves |-> << >>] }

VARIABLES
  running,            \* the mlx loop has not been exited
  now,                \* time.time()
  entry, exit_, moves, path,
  color_index, current_color, assets,
  path_progress, animating, reverse_animating, last_update,
  draws,              \* draw calls made by the most recent handler
  visible,            \* indices of the path segments shown on the window
  progHist,           \* progress values since the trigger, while only ticks followed
  segHist,            \* segments drawn by those ticks
  lastAccept,         \* time of the last tick that got past the rate limit
  last_event,         \* the callback delivered last, or "clock" once time has moved on
  margin_img,         \* handle of the margin pixel fill_margins_with_background loaded last
  call                \* the function under test and its arguments and result, if any

vars == <<running, now, entry, exit_, moves, path, color_index, current_color,
          assets, path_progress, animating, reverse_animating, last_update,
          draws, visible, progHist, segHist, lastAccept, last_event,
          margin_img, call>>

maze == <<entry, exit_, moves, path>>
theme == <<color_index, current_color, assets>>

\* ----------------------------------------------------------------- images
Img(set, id) == [set |-> set, id |-> id]
red_px == Img("red_pixel", 16)
black_px == Img("black_pixel", 16)
green_px == Img("green_margin", 16)
pink_px == Img("pink_margin", 16)

\* load_pixel returns a new image on every call: its handle is any handle but
\* the one of the image loaded before, which is never destroyed.
Handles == 1..MaxHandles
load_pixel(alive) == Handles \ {alive}

\* ids 0..15 are the tiles of a set; the margin pixel loaded under handle h
\* has id 16 + h
margin_px(color, h) == Img(color, 16 + h)

load_tiles(color) ==
  [tiles |-> [v \in 0..15 |-> Img(color, v)],
   tile_width |-> TILE_SIZE, tile_height |-> TILE_SIZE]

assets_by_color == [c \in {"green", "pink", "rainbow"} |-> load_tiles(c)]

win_width == MARGIN * 2 + Len(matrix[1]) * TILE_SIZE
win_height == MARGIN * 2 + Len(matrix) * TILE_SIZE

\* One recorded draw: op is "margin", "tile", "segment" or "marker".
Draw(op, img, index, x0, y0, x1, y1) ==
  [op |-> op, img |-> img, index |-> index,
   x0 |-> x0, y0 |-> y0, x1 |-> x1, y1 |-> y1]

\* ------------------------------------------------------------ path builder
\* faulty variant: 'W' steps the column the same way as 'E'
RECURSIVE build_path_loop_west(_, _, _, _, _)
build_path_loop_west(row, col, mvs, k, acc) ==
  IF k > Len(mvs) THEN acc
  ELSE LET move == mvs[k] IN
       IF move = "N" THEN build_path_loop_west(row - 1, col, mvs, k + 1, Append(acc, <<row - 1, col>>))
       ELSE IF move = "S" THEN build_path_loop_west(row + 1, col, mvs, k + 1, Append(acc, <<row + 1, col>>))
       ELSE IF move = "E" THEN build_path_loop_west(row, col + 1, mvs, k + 1, Append(acc, <<row, col + 1>>))
       ELSE IF move = "W" THEN build_path_loop_west(row, col + 1, mvs, k + 1, Append(acc, <<row, col + 1>>))
       ELSE build_path_loop_west(row, col, mvs, k + 1, acc)

\* faulty variant: an unknown character falls through to the append
RECURSIVE build_path_loop_append(_, _, _, _, _)
build_path_loop_append(row, col, mvs, k, acc) ==
  IF k > Len(mvs) THEN acc
  ELSE LET move == mvs[k] IN
       IF move = "N" THEN build_path_loop_append(row - 1, col, mvs, k + 1, Append(acc, <<row - 1, col>>))
       ELSE IF move = "S" THEN build_path_loop_append(row + 1, col, mvs, k + 1, Append(acc, <<row + 1, col>>))
       ELSE IF move = "E" THEN build_path_loop_append(row, col + 1, mvs, k + 1, Append(acc, <<row, col + 1>>))
       ELSE IF move = "W" THEN build_path_loop_append(row, col - 1, mvs, k + 1, Append(acc, <<row, col - 1>>))
       ELSE build_path_loop_append(row, col, mvs, k + 1, Append(acc, <<row, col>>))

RECURSIVE build_path_loop(_, _, _, _, _)
build_path_loop(row, col, mvs, k, acc) ==
  IF k > Len(mvs) THEN acc
  ELSE LET move == mvs[k] IN
       IF move = "N" THEN build_path_loop(row - 1, col, mvs, k + 1, Append(acc, <<row - 1, col>>))
       ELSE IF move = "S" THEN build_path_loop(row + 1, col, mvs, k + 1, Append(acc, <<row + 1, col>>))
       ELSE IF move = "E" THEN build_path_loop(row, col + 1, mvs, k + 1, Append(acc, <<row, col + 1>>))
       ELSE IF move = "W" THEN build_path_loop(row, col - 1, mvs, k + 1, Append(acc, <<row, col - 1>>))
       ELSE build_path_loop(row, col, mvs, k + 1, acc)

build_path_from_moves(e, mvs) ==
  build_path_loop(e[1], e[2], mvs, 1, << <<e[1], e[2]>> >>)

\* ---------------------------------------------------------------- geometry
cell_center_px(pos) ==
  << MARGIN + pos[2] * TILE_SIZE + TILE_SIZE \div 2,
     MARGIN + pos[1] * TILE_SIZE + TILE_SIZE \div 2 >>

Abs(n) == IF n < 0 THEN -n ELSE n

\* floor and ceiling of num / sqrt(l2), for l2 > 0
FloorDivSqrt(num, l2) ==
  LET m == Abs(num)
      lo == CHOOSE k \in 0..m : k * k * l2 <= m * m /\ (k + 1) * (k + 1) * l2 > m * m
      hi == IF lo * lo * l2 = m * m THEN lo ELSE lo + 1
  IN IF num >= 0 THEN lo ELSE -hi

CeilDivSqrt(num, l2) == -FloorDivSqrt(-num, l2)

\* int(c0 + (d / length) * offset): truncation towards zero
TruncOffset(c0, d, offset, l2) ==
  IF c0 + FloorDivSqrt(d * offset, l2) >= 0
  THEN c0 + FloorDivSqrt(d * offset, l2)
  ELSE c0 + CeilDivSqrt(d * offset, l2)

\* faulty variant: no test for a zero length; the division by zero raises and
\* no point is returned
offset_point_towards_unguarded(x0, y0, x1, y1, offset) ==
  LET dx == x1 - x0
      dy == y1 - y0
      l2 == dx * dx + dy * dy
  IN IF l2 = 0 THEN << >>
     ELSE <<TruncOffset(x0, dx, offset, l2), TruncOffset(y0, dy, offset, l2)>>

offset_point_towards(x0, y0, x1, y1, offset) ==
  LET dx == x1 - x0
      dy == y1 - y0
      l2 == dx * dx + dy * dy
  IN IF l2 = 0 THEN <<x0, y0>>
     ELSE <<TruncOffset(x0, dx, offset, l2), TruncOffset(y0, dy, offset, l2)>>

\* ---------------------------------------------------------- line rasterizer
\* draw_line_bresenham, lines 176-180: the loop's variables on entry.  pts
\* lists the points stepped so far, each drawn with the line's thickness.
\* faulty variant: the offsets run over range(-t, t)
brush_open(x, y, thickness) ==
  IF thickness <= 1 THEN << <<x, y>> >>
  ELSE LET t == thickness \div 2
           side == 2 * t
       IN [k \in 1..(side * side) |->
             <<x - t + ((k - 1) % side), y - t + ((k - 1) \div side)>>]

\* lines 183-189: the draw calls made at one stepped point, in call order
\* (rows oy outermost, columns ox innermost)
brush(x, y, thickness) ==
  IF thickness <= 1 THEN << <<x, y>> >>
  ELSE LET t == thickness \div 2
           side == 2 * t + 1
       IN [k \in 1..(side * side) |->
             <<x - t + ((k - 1) % side), y - t + ((k - 1) \div side)>>]

bresenham_start(x0, y0, x1, y1, thickness) ==
  LET dx == Abs(x1 - x0)
      dy == -Abs(y1 - y0)
  IN [fn |-> "line", p0 |-> <<x0, y0>>, p1 |-> <<x1, y1>>,
      x0 |-> x0, y0 |-> y0, x1 |-> x1, y1 |-> y1,
      dx |-> dx, sx |-> IF x0 < x1 THEN 1 ELSE -1,
      dy |-> dy, sy |-> IF y0 < y1 THEN 1 ELSE -1,
      err |-> dx + dy, pts |-> << >>, done |-> FALSE,
      thickness |-> thickness, drawn |-> << >>]

\* faulty variant: the loop ends as soon as one coordinate has arrived
bresenham_step_either(st) ==
  LET drawn == Append(st.pts, <<st.x0, st.y0>>)
      e2 == 2 * st.err
      stepx == e2 >= st.dy
      err1 == IF stepx THEN st.err + st.dy ELSE st.err
      stepy == e2 <= st.dx
  IN IF st.x0 = st.x1 \/ st.y0 = st.y1
     THEN [st EXCEPT !.pts = drawn, !.drawn = brush(st.x0, st.y0, st.thickness),
                     !.done = TRUE]
     ELSE [st EXCEPT !.pts = drawn, !.drawn = brush(st.x0, st.y0, st.thickness),
                     !.x0 = IF stepx THEN st.x0 + st.sx ELSE st.x0,
                     !.y0 = IF stepy THEN st.y0 + st.sy ELSE st.y0,
                     !.err = IF stepy THEN err1 + st.dx ELSE err1]

\* faulty variant: the y step is taken only when the x step was not
bresenham_step_elif(st) ==
  LET drawn == Append(st.pts, <<st.x0, st.y0>>)
      e2 == 2 * st.err
      stepx == e2 >= st.dy
      stepy == ~stepx /\ e2 <= st.dx
  IN IF st.x0 = st.x1 /\ st.y0 = st.y1
     THEN [st EXCEPT !.pts = drawn, !.drawn = brush(st.x0, st.y0, st.thickness),
                     !.done = TRUE]
     ELSE [st EXCEPT !.pts = drawn, !.drawn = brush(st.x0, st.y0, st.thickness),
                     !.x0 = IF stepx THEN st.x0 + st.sx ELSE st.x0,
                     !.y0 = IF stepy THEN st.y0 + st.sy ELSE st.y0,
                     !.err = IF stepx THEN st.err + st.dy ELSE st.err + st.dx]

\* lines 182-200: one iteration of the while loop
bresenham_step(st) ==
  LET drawn == Append(st.pts, <<st.x0, st.y0>>)
      e2 == 2 * st.err
      stepx == e2 >= st.dy
      err1 == IF stepx THEN st.err + st.dy ELSE st.err
      stepy == e2 <= st.dx
  IN IF st.x0 = st.x1 /\ st.y0 = st.y1
     THEN [st EXCEPT !.pts = drawn, !.drawn = brush(st.x0, st.y0, st.thickness),
                     !.done = TRUE]
     ELSE [st EXCEPT !.pts = drawn, !.drawn = brush(st.x0, st.y0, st.thickness),
                     !.x0 = IF stepx THEN st.x0 + st.sx ELSE st.x0,
                     !.y0 = IF stepy THEN st.y0 + st.sy ELSE st.y0,
                     !.err = IF stepy THEN err1 + st.dx ELSE err1]

\* ---------------------------------------------------------- segment render
\* faulty variant: the last segment is looked for one index too far
draw_path_segment_late(p, a, b, index, pixel_img) ==
  LET ca == cell_center_px(a)
      cb == cell_center_px(b)
      s == IF index = 1
           THEN offset_point_towards(ca[1], ca[2], cb[1], cb[2], PORTAL_OUTER_RADIUS + 2)
           ELSE ca
      t == IF index = Len(p)
           THEN offset_point_towards(cb[1], cb[2], s[1], s[2], PORTAL_OUTER_RADIUS + 2)
           ELSE cb
  IN << Draw("segment", pixel_img, index, s[1], s[2], t[1], t[2]) >>

\* faulty variant: the end is shortened only when the start was not
draw_path_segment_elif(p, a, b, index, pixel_img) ==
  LET ca == cell_center_px(a)
      cb == cell_center_px(b)
      s == IF index = 1
           THEN offset_point_towards(ca[1], ca[2], cb[1], cb[2], PORTAL_OUTER_RADIUS + 2)
           ELSE ca
      t == IF index # 1 /\ index = Len(p) - 1
           THEN offset_point_towards(cb[1], cb[2], s[1], s[2], PORTAL_OUTER_RADIUS + 2)
           ELSE cb
  IN << Draw("segment", pixel_img, index, s[1], s[2], t[1], t[2]) >>

draw_path_segment(p, a, b, index, pixel_img) ==
  LET ca == cell_center_px(a)
      cb == cell_center_px(b)
      s == IF index = 1
           THEN offset_point_towards(ca[1], ca[2], cb[1], cb[2], PORTAL_OUTER_RADIUS + 2)
           ELSE ca
      t == IF index = Len(p) - 1
           THEN offset_point_towards(cb[1], cb[2], s[1], s[2], PORTAL_OUTER_RADIUS + 2)
           ELSE cb
  IN << Draw("segment", pixel_img, index, s[1], s[2], t[1], t[2]) >>

\* ---------------------------------------------------------- redraw pipeline
fill_margins_with_background(color, h) ==
  << Draw("margin", margin_px(color, h), 0, 0, 0, win_width - 1, win_height - 1) >>

TileDraw(as, k) ==
  LET cols == Len(matrix[1])
      r == (k - 1) \div cols
      c == (k - 1) % cols
      val == matrix[r + 1][c + 1] % 16
      x == MARGIN + c * TILE_SIZE
      y == MARGIN + r * TILE_SIZE
  IN Draw("tile", as.tiles[val], 0, x, y, x, y)

\* draw_maze_tiles: resets path_progress, draws the tiles only when idle
draw_maze_tiles(as, anim, rev) ==
  [path_progress |-> 0,
   draws |-> IF ~anim /\ ~rev
             THEN [k \in 1..(Len(matrix) * Len(matrix[1])) |-> TileDraw(as, k)]
             ELSE << >>]

draw_portal_marker(pos, pixel_img) ==
  LET c == cell_center_px(pos)
  IN << Draw("marker", pixel_img, 0, c[1], c[2], c[1], c[2]) >>

RECURSIVE draw_path_loop(_, _, _)
draw_path_loop(p, i, progress_points) ==
  IF i >= progress_points THEN << >>
  ELSE draw_path_segment(p, p[i], p[i + 1], i, red_px)
       \o draw_path_loop(p, i + 1, progress_points)

draw_path_upto(p, progress_points) ==
  IF progress_points <= 1 THEN << >>
  ELSE draw_path_loop(p, 1, progress_points)

redraw_all(color, as, p, e, x, anim, rev, h) ==
  LET tiles == draw_maze_tiles(as, anim, rev)
  IN [path_progress |-> tiles.path_progress,
      draws |-> fill_margins_with_background(color, h)
                \o tiles.draws
                \o draw_path_upto(p, tiles.path_progress)
                \o draw_portal_marker(e, green_px)
                \o draw_portal_marker(x, pink_px)]

\* ------------------------------------------------------- the window content
\* Segments shown after a batch of draws: a red segment appears, a black one
\* disappears, and a tile pass repaints every cell and so hides the path.
RECURSIVE Screen(_, _, _)
Screen(vis, ds, k) ==
  IF k > Len(ds) THEN vis
  ELSE LET d == ds[k] IN
       IF d.op = "tile" THEN Screen({}, ds, k + 1)
       ELSE IF d.op = "segment" /\ d.img = red_px THEN Screen(vis \cup {d.index}, ds, k + 1)
       ELSE IF d.op = "segment" /\ d.img = black_px THEN Screen(vis \ {d.index}, ds, k + 1)
       ELSE Screen(vis, ds, k + 1)

\* the indices of the segments a batch of draws contains, in order
RECURSIVE SegmentsOf(_)
SegmentsOf(ds) ==
  IF ds = << >> THEN << >>
  ELSE (IF Head(ds).op = "segment" THEN <<Head(ds).index>> ELSE << >>)
       \o SegmentsOf(Tail(ds))

\* ------------------------------------------------------------------- Init
Init ==
  /\ \E mz \in Mazes :
       /\ entry = mz.entry
       /\ exit_ = mz.exit_
       /\ moves = mz.moves
       /\ path = build_path_from_moves(mz.entry, mz.moves)
       /\ draws = redraw_all(COLOR_CYCLE[1], assets_by_color[COLOR_CYCLE[1]],
                             build_path_from_moves(mz.entry, mz.moves),
                             mz.entry, mz.exit_, FALSE, FALSE, 1).draws
  /\ running = TRUE
  /\ now = 1
  /\ color_index = 0
  /\ current_color = COLOR_CYCLE[1]
  /\ assets = assets_by_color[COLOR_CYCLE[1]]
  /\ path_progress = 0
  /\ animating = FALSE
  /\ reverse_animating = FALSE
  /\ last_update = 0
  /\ visible = {}
  /\ progHist = << >>
  /\ segHist = << >>
  /\ lastAccept = -1
  /\ last_event = "start"
  /\ margin_img = 1
  /\ call = [fn |-> "none"]

\* ------------------------------------------------------------ key_handler
KeyEsc ==
  /\ running' = FALSE
  /\ draws' = << >>
  /\ last_event' = "esc"
  /\ UNCHANGED <<now, maze, call, theme, margin_img, path_progress, animating, reverse_animating,
                 last_update, visible, progHist, segHist, lastAccept>>

\* faulty variant: the tile set of the new theme is not selected
KeyC_stale_assets ==
  \E h \in load_pixel(margin_img) :
  LET ci == (color_index + 1) % Len(COLOR_CYCLE)
      cc == COLOR_CYCLE[ci + 1]
      rd == redraw_all(cc, assets, path, entry, exit_, animating, reverse_animating, h)
  IN /\ last_event' = "c"
     /\ margin_img' = h
     /\ color_index' = ci
     /\ current_color' = cc
     /\ assets' = assets
     /\ path_progress' = rd.path_progress
     /\ draws' = rd.draws
     /\ visible' = Screen(visible, rd.draws, 1)
     /\ progHist' = << >>
     /\ segHist' = << >>
     /\ UNCHANGED <<running, now, maze, call, animating, reverse_animating,
                    last_update, lastAccept>>

KeyC ==
  \E h \in load_pixel(margin_img) :
  LET ci == (color_index + 1) % Len(COLOR_CYCLE)
      cc == COLOR_CYCLE[ci + 1]
      as == assets_by_color[cc]
      rd == redraw_all(cc, as, path, entry, exit_, animating, reverse_animating, h)
  IN /\ last_event' = "c"
     /\ margin_img' = h
     /\ color_index' = ci
     /\ current_color' = cc
     /\ assets' = as
     /\ path_progress' = rd.path_progress
     /\ draws' = rd.draws
     /\ visible' = Screen(visible, rd.draws, 1)
     /\ progHist' = << >>
     /\ segHist' = << >>
     /\ UNCHANGED <<running, now, maze, call, animating, reverse_animating,
                    last_update, lastAccept>>

\* line 303: a running animation makes the trigger a no-op
trigger_ignored_never(anim, rev) == FALSE

\* faulty variant: only a running erase pass blocks the trigger
trigger_ignored_reverse_only(anim, rev) == rev

trigger_ignored(anim, rev) == anim \/ rev

\* line 307: a fully drawn path is erased by the next run
starts_reverse_strict(progress, p) == progress > Len(p)

starts_reverse(progress, p) == progress >= Len(p)

\* lines 309 and 314: the run's start time
start_time_kept(t, last) == last

start_time(t, last) == t

KeyS ==
  /\ last_event' = "s"
  /\ IF trigger_ignored(animating, reverse_animating)
     THEN /\ draws' = << >>
          /\ UNCHANGED <<running, now, maze, call, theme, margin_img, path_progress, animating,
                         reverse_animating, last_update, visible, progHist,
                         segHist, lastAccept>>
     ELSE /\ IF starts_reverse(path_progress, path)
             THEN reverse_animating' = TRUE /\ UNCHANGED animating
             ELSE animating' = TRUE /\ UNCHANGED reverse_animating
          /\ last_update' = start_time(now, last_update)
          /\ draws' = << >>
          /\ progHist' = <<path_progress>>
          /\ segHist' = << >>
          /\ UNCHANGED <<running, now, maze, call, theme, margin_img, path_progress, visible, lastAccept>>

KeyIgnored ==
  /\ last_event' = "key"
  /\ draws' = << >>
  /\ UNCHANGED <<running, now, maze, call, theme, margin_img, path_progress, animating,
                 reverse_animating, last_update, visible, progHist, segHist,
                 lastAccept>>

key_handler(keycode) ==
  /\ running
  /\ IF keycode = KEY_ESC THEN KeyEsc
     ELSE IF keycode = KEY_C THEN KeyC
     ELSE IF keycode = KEY_S THEN KeyS
     ELSE KeyIgnored

\* -------------------------------------------------------------- loop_hook
tick_due_always(t, last) == TRUE

\* faulty variant: the comparison is the wrong way round
tick_due_inverted(t, last) == t - last < animation_speed

tick_due(t, last) == ~(t - last < animation_speed)

\* faulty variant: the segment is drawn but the progress is not advanced
forward_step_stuck(p, progress) ==
  IF progress < Len(p)
  THEN IF progress = 0
       THEN [path_progress |-> 1, animating |-> TRUE, draws |-> << >>]
       ELSE [path_progress |-> progress, animating |-> TRUE,
             draws |-> draw_path_segment(p, p[progress], p[progress + 1], progress, red_px)]
  ELSE [path_progress |-> progress, animating |-> FALSE, draws |-> << >>]

\* faulty variant: the tick that draws the last segment also ends the run
forward_step_eager(p, progress) ==
  IF progress < Len(p)
  THEN IF progress = 0
       THEN [path_progress |-> 1, animating |-> TRUE, draws |-> << >>]
       ELSE [path_progress |-> progress + 1, animating |-> progress + 1 < Len(p),
             draws |-> draw_path_segment(p, p[progress], p[progress + 1], progress, red_px)]
  ELSE [path_progress |-> progress, animating |-> FALSE, draws |-> << >>]

\* faulty variant: the first tick of a run sets the progress to 2
forward_step_skip(p, progress) ==
  IF progress < Len(p)
  THEN IF progress = 0
       THEN [path_progress |-> 2, animating |-> TRUE, draws |-> << >>]
       ELSE [path_progress |-> progress + 1, animating |-> TRUE,
             draws |-> draw_path_segment(p, p[progress], p[progress + 1], progress, red_px)]
  ELSE [path_progress |-> progress, animating |-> FALSE, draws |-> << >>]

forward_step(p, progress) ==
  IF progress < Len(p)
  THEN IF progress = 0
       THEN [path_progress |-> 1, animating |-> TRUE, draws |-> << >>]
       ELSE [path_progress |-> progress + 1, animating |-> TRUE,
             draws |-> draw_path_segment(p, p[progress], p[progress + 1], progress, red_px)]
  ELSE [path_progress |-> progress, animating |-> FALSE, draws |-> << >>]

\* faulty variant: the erase pass draws with the path pixel
reverse_step_red(p, progress) ==
  IF progress > 1
  THEN [path_progress |-> progress - 1, reverse_animating |-> TRUE,
        draws |-> draw_path_segment(p, p[progress - 1], p[progress], progress - 1, red_px)]
  ELSE [path_progress |-> progress, reverse_animating |-> FALSE, draws |-> << >>]

\* faulty variant: the erased segment is numbered by the progress itself
reverse_step_index(p, progress) ==
  IF progress > 1
  THEN [path_progress |-> progress - 1, reverse_animating |-> TRUE,
        draws |-> draw_path_segment(p, p[progress - 1], p[progress], progress, black_px)]
  ELSE [path_progress |-> progress, reverse_animating |-> FALSE, draws |-> << >>]

reverse_step(p, progress) ==
  IF progress > 1
  THEN [path_progress |-> progress - 1, reverse_animating |-> TRUE,
        draws |-> draw_path_segment(p, p[progress - 1], p[progress], progress - 1, black_px)]
  ELSE [path_progress |-> progress, reverse_animating |-> FALSE, draws |-> << >>]

TickStep(progress, ds) ==
  /\ path_progress' = progress
  /\ draws' = ds
  /\ visible' = Screen(visible, ds, 1)
  /\ progHist' = IF progHist = << >> THEN << >> ELSE Append(progHist, progress)
  /\ segHist' = IF progHist = << >> THEN << >> ELSE segHist \o SegmentsOf(ds)

loop_hook ==
  /\ running
  /\ last_event' = "tick"
  /\ IF ~animating /\ ~reverse_animating
     THEN /\ draws' = << >>
          /\ UNCHANGED <<running, now, maze, call, theme, margin_img, path_progress, animating,
                         reverse_animating, last_update, visible, progHist,
                         segHist, lastAccept>>
     ELSE IF ~tick_due(now, last_update)
     THEN /\ draws' = << >>
          /\ UNCHANGED <<running, now, maze, call, theme, margin_img, path_progress, animating,
                         reverse_animating, last_update, visible, progHist,
                         segHist, lastAccept>>
     ELSE /\ last_update' = now
          /\ lastAccept' = now
          /\ IF animating
             THEN LET st == forward_step(path, path_progress)
                  IN /\ TickStep(st.path_progress, st.draws)
                     /\ animating' = st.animating
                     /\ UNCHANGED reverse_animating
             ELSE LET st == reverse_step(path, path_progress)
                  IN /\ TickStep(st.path_progress, st.draws)
                     /\ reverse_animating' = st.reverse_animating
                     /\ UNCHANGED animating
          /\ UNCHANGED <<running, now, maze, call, theme, margin_img>>

\* ------------------------------------------------------------- the clock
Elapse ==
  /\ running
  /\ now < MaxTime
  /\ now' = now + 1
  /\ last_event' = "clock"
  /\ UNCHANGED <<running, maze, call, theme, margin_img, path_progress, animating,
                 reverse_animating, last_update, draws, visible, progHist,
                 segHist, lastAccept>>

Next ==
  \/ \E keycode \in Keycodes : key_handler(keycode)
  \/ loop_hook
  \/ Elapse

Spec == Init /\ [][Next]_vars

\* The clock without an end.  loop_hook reads the clock only in the difference
\* now - last_update (line 327), so once the clock shows LiveTime one more unit
\* of time is the same as every recorded time lying one unit further back; a
\* time of 0 stays 0, every difference of animation_speed or more being
\* treated alike by the comparison.
LiveTime == animation_speed + 1

ElapseLive ==
  /\ running
  /\ last_event' = "clock"
  /\ IF now < LiveTime
     THEN /\ now' = now + 1
          /\ UNCHANGED <<last_update, lastAccept>>
     ELSE /\ last_update' = IF last_update > 0 THEN last_update - 1 ELSE last_update
          /\ lastAccept' = IF lastAccept > 0 THEN lastAccept - 1 ELSE lastAccept
          /\ UNCHANGED now
  /\ UNCHANGED <<running, maze, call, theme, margin_img, path_progress,
                 animating, reverse_animating, draws, visible, progHist, segHist>>

NextLive ==
  \/ \E keycode \in Keycodes : key_handler(keycode)
  \/ loop_hook
  \/ ElapseLive

\* --------------------------------------------- redraw_all as an entry point
\* The host calls redraw_all(game) directly, as main does before the loop.
RedrawAll ==
  /\ running
  /\ \E h \in load_pixel(margin_img) :
       LET rd == redraw_all(current_color, assets, path, entry, exit_,
                            animating, reverse_animating, h)
       IN /\ last_event' = "redraw"
          /\ margin_img' = h
          /\ path_progress' = rd.path_progress
          /\ draws' = rd.draws
          /\ visible' = Screen(visible, rd.draws, 1)
          /\ progHist' = << >>
          /\ segHist' = << >>
  /\ UNCHANGED <<running, now, maze, call, theme, animating, reverse_animating,
                 last_update, lastAccept>>

NextRedraw ==
  \/ \E keycode \in Keycodes : key_handler(keycode)
  \/ loop_hook
  \/ Elapse
  \/ RedrawAll

SpecRedraw == Init /\ [][NextRedraw]_vars

\* ------------------------------------------------- the functions on their own
\* build_path_from_moves, draw_path_segment, offset_point_towards and
\* draw_line_bresenham applied to inputs drawn from bounded sets.
Alphabet == {"N", "S", "E", "W", "X"}
MoveStrings == UNION {[1..n -> Alphabet] : n \in 0..MaxMoves}
Entries == {<<0, 0>>, <<1, 1>>, <<2, 1>>}
Coords == 0..MaxCoord
SignedCoords == (-MaxCoord)..MaxCoord
Thicknesses == 0..MaxThickness
OffsetValues == {-3, 0, 1, 5, PORTAL_OUTER_RADIUS + 2}

InitViewer ==
  /\ running = TRUE
  /\ now = 1
  /\ exit_ = <<2, 2>>
  /\ path = << >>
  /\ draws = << >>
  /\ color_index = 0
  /\ current_color = COLOR_CYCLE[1]
  /\ assets = assets_by_color[COLOR_CYCLE[1]]
  /\ path_progress = 0
  /\ animating = FALSE
  /\ reverse_animating = FALSE
  /\ last_update = 0
  /\ visible = {}
  /\ progHist = << >>
  /\ segHist = << >>
  /\ lastAccept = -1
  /\ last_event = "start"
  /\ margin_img = 1

InitFn ==
  /\ InitViewer
  /\ \/ /\ entry \in Entries
        /\ moves \in MoveStrings
        /\ call = [fn |-> "none"]
     \/ /\ entry = <<0, 0>>
        /\ moves = << >>
        /\ \E x0 \in SignedCoords, y0 \in SignedCoords,
              x1 \in SignedCoords, y1 \in SignedCoords, d \in OffsetValues :
             call = [fn |-> "offset", x0 |-> x0, y0 |-> y0, x1 |-> x1, y1 |-> y1,
                     offset |-> d, done |-> FALSE, result |-> << >>]
     \/ /\ entry = <<0, 0>>
        /\ moves = << >>
        /\ \E x0 \in Coords, y0 \in Coords, x1 \in Coords, y1 \in Coords,
              th \in Thicknesses :
             call = bresenham_start(x0, y0, x1, y1, th)

viewer == <<running, now, color_index, current_color, assets, path_progress,
            animating, reverse_animating, last_update, visible, progHist,
            segHist, lastAccept, last_event, margin_img>>

BuildPath ==
  /\ call.fn = "none"
  /\ path = << >>
  /\ path' = build_path_from_moves(entry, moves)
  /\ UNCHANGED <<viewer, entry, exit_, moves, draws, call>>

DrawSegment ==
  /\ call.fn \in {"none", "segment"}
  /\ path # << >>
  /\ \E i \in 1..(Len(path) - 1), px \in {red_px, black_px} :
       /\ draws' = draw_path_segment(path, path[i], path[i + 1], i, px)
       /\ call' = [fn |-> "segment", index |-> i]
  /\ UNCHANGED <<viewer, maze>>

OffsetPoint ==
  /\ call.fn = "offset"
  /\ ~call.done
  /\ call' = [call EXCEPT !.done = TRUE,
                          !.result = offset_point_towards(call.x0, call.y0, call.x1,
                                                          call.y1, call.offset)]
  /\ UNCHANGED <<viewer, maze, draws>>

LineStep ==
  /\ call.fn = "line"
  /\ ~call.done
  /\ call' = bresenham_step(call)
  /\ UNCHANGED <<viewer, maze, draws>>

NextFn ==
  \/ BuildPath
  \/ DrawSegment
  \/ OffsetPoint
  \/ LineStep

SpecFn == InitFn /\ [][NextFn]_vars /\ WF_vars(LineStep)

\* ------------------------------------------------------------ vocabulary
N == Len(path)
Idle == ~animating /\ ~reverse_animating
Forward == animating /\ ~reverse_animating
Reverse == reverse_animating /\ ~animating
mode == <<animating, reverse_animating>>

\* ------------------------------------------------------------ claim terms
Asc(a, b) == [i \in 1..(b - a + 1) |-> a + i - 1]
Desc(a, b) == [i \in 1..(a - b + 1) |-> a - i + 1]
AcceptedTick == loop_hook /\ ~Idle /\ now - last_update >= animation_speed
TickMutates ==
  loop_hook /\ <<path_progress, animating, reverse_animating, last_update>>'
               # <<path_progress, animating, reverse_animating, last_update>>

\* time goes on
SpecLive == Init /\ [][NextLive]_vars /\ WF_vars(ElapseLive)

\* lines 324-328: a call of loop_hook now would pass the rate limit
TickPending == running /\ ~Idle /\ tick_due(now, last_update)

\* C1: no key event changes the progress: a theme change ('c') leaves
\* path_progress and the animation mode as they were, and the progress changes
\* only inside a tick that got past the rate limit.
C1_KeysKeepProgress ==
  [][ /\ key_handler(KEY_C) =>
           UNCHANGED <<path_progress, animating, reverse_animating>>
      /\ path_progress' # path_progress => AcceptedTick ]_vars

\* C2: the trigger ('s') handled in Idle enters Reverse when progress = N and
\* Forward when progress < N; it records the current time in last_update,
\* keeps the progress and draws nothing.
C2_TriggerFromIdle ==
  [][ key_handler(KEY_S) /\ Idle =>
        /\ path_progress = N => Reverse'
        /\ path_progress < N => Forward'
        /\ path_progress <= N
        /\ last_update' = now
        /\ path_progress' = path_progress
        /\ draws' = << >> ]_vars

\* a full forward run was shown and the trigger has just started the erase run
C2_Witness ==
  /\ last_event = "s" /\ Reverse /\ N >= 3
  /\ path_progress = N /\ last_update = now /\ last_update > 1 /\ draws = << >>

\* C3: the trigger handled in Forward or Reverse changes neither the mode,
\* nor the progress, nor last_update, and draws nothing.
C3_TriggerIgnored ==
  [][ key_handler(KEY_S) /\ ~Idle =>
        /\ UNCHANGED <<path_progress, animating, reverse_animating, last_update>>
        /\ running'
        /\ draws' = << >> ]_vars

\* the trigger was delivered in the middle of a forward run, later than its start
C3_Witness ==
  /\ last_event = "s" /\ Forward /\ Len(progHist) >= 3
  /\ last_update < now /\ path_progress \in 2..(N - 1)

\* C4: a tick past the rate limit in Forward does one of: progress 0 -> 1
\* without a draw; 0 < progress < N: draw segment `progress` with the path
\* pixel, then progress + 1; progress = N: no draw, progress kept, mode Idle.
C4_ForwardTick ==
  [][ AcceptedTick /\ animating =>
        LET k == path_progress IN
        /\ k \in 0..N
        /\ k = 0 => path_progress' = 1 /\ draws' = << >> /\ animating'
        /\ (0 < k /\ k < N) =>
              /\ draws' = draw_path_segment(path, path[k], path[k + 1], k, red_px)
              /\ SegmentsOf(draws') = <<k>>
              /\ path_progress' = k + 1
              /\ animating'
        /\ k = N => path_progress' = k /\ draws' = << >> /\ Idle' ]_vars

\* a forward tick has just drawn an inner segment
C4_Witness ==
  /\ last_event = "tick" /\ Forward /\ N = 5 /\ path_progress = 3
  /\ SegmentsOf(draws) = <<2>> /\ draws[1].img = red_px /\ last_update = now

\* C5: a tick past the rate limit in Reverse does one of: progress > 1: draw
\* segment progress - 1 with the erase pixel, then progress - 1;
\* progress <= 1: no draw, progress kept, mode Idle.
C5_ReverseTick ==
  [][ AcceptedTick /\ ~animating /\ reverse_animating =>
        LET k == path_progress IN
        /\ k > 1 =>
              /\ draws' = draw_path_segment(path, path[k - 1], path[k], k - 1, black_px)
              /\ SegmentsOf(draws') = <<k - 1>>
              /\ path_progress' = k - 1
              /\ Reverse'
        /\ k <= 1 => path_progress' = k /\ draws' = << >> /\ Idle' ]_vars

\* a reverse tick has just erased the last segment of a fully shown path
C5_Witness ==
  /\ last_event = "tick" /\ Reverse /\ N = 3 /\ path_progress = 2
  /\ SegmentsOf(draws) = <<2>> /\ draws[1].img = black_px /\ last_update = now
  /\ visible = {1}

\* C6: a tick in Idle, or in Forward/Reverse less than animation_speed after
\* last_update, changes nothing and draws nothing; so a tick that changes the
\* state comes at least animation_speed after the previous tick that did.
C6_RateLimit ==
  [][ /\ (loop_hook /\ (Idle \/ now - last_update < animation_speed)) =>
           /\ UNCHANGED <<path_progress, animating, reverse_animating, last_update>>
           /\ draws' = << >>
      /\ (TickMutates /\ lastAccept # -1) => now - lastAccept >= animation_speed
      /\ TickMutates => lastAccept' = now ]_vars

\* a tick arrived one clock unit after an accepted one, during a run
C6_Witness ==
  /\ last_event = "tick" /\ Forward /\ now - last_update = 1
  /\ lastAccept = last_update /\ path_progress >= 2 /\ draws = << >>

\* C7: a run started by the trigger and followed only by ticks shows the
\* progress values one step at a time: Forward counts up from its start (0 on
\* the first run) to N and then turns Idle; Reverse counts down from N to 1
\* (staying at 1 when N = 1) and then turns Idle.
C7_RunOrder ==
  progHist # << >> =>
    LET len == Len(progHist)
        h == SubSeq(progHist, 1, len - 1)
    IN /\ progHist[len] = path_progress
       /\ Forward => progHist[1] \in {0, 1} /\ progHist = Asc(progHist[1], path_progress)
       /\ Reverse => progHist = Desc(N, path_progress)
       /\ Idle => /\ len >= 2
                  /\ progHist[len] = progHist[len - 1]
                  /\ \/ h[1] \in {0, 1} /\ h[1] < N /\ h = Asc(h[1], N)
                     \/ h = Desc(N, 1)

\* a forward run 0..N and then a reverse run N..1 have both ended in Idle
C7_Witness ==
  /\ last_event = "tick" /\ Idle /\ N = 3
  /\ progHist = <<3, 2, 1, 1>> /\ segHist = <<2, 1>> /\ visible = {}

\* C8 as stated: for entry (0,0) and moves EESS the path is
\* (0,0),(0,1),(0,2),(1,2),(2,2), and after the trigger from Idle/progress 0
\* and exactly 5 accepted ticks the progress went 0,1,2,3,4,5, the segments
\* 1,2,3,4 were drawn in that order, and the controller is Idle.
C8_FiveTicksIdle ==
  (entry = <<0, 0>> /\ moves = <<"E", "E", "S", "S">>) =>
    /\ path = << <<0, 0>>, <<0, 1>>, <<0, 2>>, <<1, 2>>, <<2, 2>> >>
    /\ (progHist # << >> /\ progHist[1] = 0 /\ Len(progHist) = 6) =>
          /\ progHist = <<0, 1, 2, 3, 4, 5>>
          /\ segHist = <<1, 2, 3, 4>>
          /\ Idle

\* C8 amended: after exactly 5 accepted ticks the progress went 0,1,2,3,4,5,
\* the segments 1,2,3,4 were drawn in that order and the controller is still
\* Forward; the sixth accepted tick draws nothing and makes it Idle.
C8_SixthTickIdle ==
  (entry = <<0, 0>> /\ moves = <<"E", "E", "S", "S">>) =>
    /\ path = << <<0, 0>>, <<0, 1>>, <<0, 2>>, <<1, 2>>, <<2, 2>> >>
    /\ (progHist # << >> /\ progHist[1] = 0 /\ Len(progHist) = 6) =>
          /\ progHist = <<0, 1, 2, 3, 4, 5>>
          /\ segHist = <<1, 2, 3, 4>>
          /\ Forward
    /\ (progHist # << >> /\ progHist[1] = 0 /\ Len(progHist) = 7) =>
          /\ progHist = <<0, 1, 2, 3, 4, 5, 5>>
          /\ segHist = <<1, 2, 3, 4>>
          /\ Idle

\* the EESS run has received its sixth accepted tick
C8_Witness ==
  /\ entry = <<0, 0>> /\ moves = <<"E", "E", "S", "S">>
  /\ last_event = "tick" /\ Len(progHist) = 7 /\ progHist[1] = 0
  /\ visible = {1, 2, 3, 4}

\* C9: redraw_all called at progress k draws, with the path pixel, exactly the
\* segments 1..k-1 in increasing order (none when k <= 1), in every mode.
C9_RedrawShowsPath ==
  [][ key_handler(KEY_C) =>
        /\ SegmentsOf(draws') = Asc(1, path_progress - 1)
        /\ \A i \in 1..Len(draws') :
              draws'[i].op = "segment" => draws'[i].img = red_px ]_vars

\* C10: the segments shown on the window are exactly 1..progress-1.
C10_VisibleMatchesProgress ==
  visible = 1..(path_progress - 1)

\* C11: redraw_all called twice in succession, with no key or tick event in
\* between, makes the same sequence of draw calls (primitive, image handle,
\* coordinates, order) both times.
C11_RedrawTwiceSame ==
  [][ (RedrawAll /\ last_event = "redraw") => draws' = draws ]_vars

\* the draw calls of a redraw: the margin fill, the tile of every cell in row
\* order, segments only, then the entry marker and the exit marker
RedrawPhases(ds) ==
  LET cells == Len(matrix) * Len(matrix[1])
      n == Len(ds)
  IN /\ n >= cells + 3
     /\ ds[1].op = "margin"
     /\ \A k \in 1..cells :
          /\ ds[1 + k].op = "tile"
          /\ ds[1 + k].x0 = MARGIN + ((k - 1) % Len(matrix[1])) * TILE_SIZE
          /\ ds[1 + k].y0 = MARGIN + ((k - 1) \div Len(matrix[1])) * TILE_SIZE
     /\ \A i \in (cells + 2)..(n - 2) : ds[i].op = "segment"
     /\ ds[n - 1].op = "marker" /\ ds[n - 1].img = green_px
     /\ ds[n].op = "marker" /\ ds[n].img = pink_px

\* C12: every redraw_all makes the four phases in order: margin fill, the tile
\* of every grid cell (also while Forward or Reverse is active), the partial
\* path, and the entry and exit markers last.
C12_RedrawPhases ==
  [][ key_handler(KEY_C) => RedrawPhases(draws') ]_vars

IsCardinal(c) == c \in {"N", "S", "E", "W"}
Delta(c) ==
  IF c = "N" THEN <<-1, 0>>
  ELSE IF c = "S" THEN <<1, 0>>
  ELSE IF c = "E" THEN <<0, 1>>
  ELSE <<0, -1>>

\* C13: for every entry and every move string over N, S, E, W the built path
\* starts at the entry, has 1 + len(moves) points, and each point is the one
\* before it moved by the unit step of its move; for every move string at all
\* the path has at least one point.  No point is checked against the grid.
C13_PathFromMoves ==
  [][ BuildPath =>
        /\ Len(path') >= 1
        /\ (\A k \in 1..Len(moves) : IsCardinal(moves[k])) =>
             /\ Len(path') = 1 + Len(moves)
             /\ path'[1] = entry
             /\ \A k \in 1..Len(moves) :
                  path'[k + 1] = <<path'[k][1] + Delta(moves[k])[1],
                                   path'[k][2] + Delta(moves[k])[2]>> ]_vars

\* a path over cardinal moves that leaves the grid on both axes
C13_Witness ==
  /\ entry = <<0, 0>>
  /\ moves = <<"N", "W", "S">>
  /\ path = << <<0, 0>>, <<-1, 0>>, <<-1, -1>>, <<0, -1>> >>

\* C14: characters outside N, S, E, W add no path point: the path built from
\* a move string is the path built from its cardinal characters alone, with
\* one point per cardinal character after the entry, and (0,0) with "NXE"
\* gives (0,0), (-1,0), (-1,1).
C14_NonCardinalSkipped ==
  [][ BuildPath =>
        /\ path' = build_path_from_moves(entry, SelectSeq(moves, IsCardinal))
        /\ Len(path') = 1 + Len(SelectSeq(moves, IsCardinal))
        /\ (entry = <<0, 0>> /\ moves = <<"N", "X", "E">>) =>
             path' = << <<0, 0>>, <<-1, 0>>, <<-1, 1>> >> ]_vars

C14_Witness ==
  /\ entry = <<0, 0>>
  /\ moves = <<"N", "X", "E">>
  /\ path = << <<0, 0>>, <<-1, 0>>, <<-1, 1>> >>

Centre(pos) == <<MARGIN + pos[2] * TILE_SIZE + TILE_SIZE \div 2,
                 MARGIN + pos[1] * TILE_SIZE + TILE_SIZE \div 2>>
Sign(v) == IF v > 0 THEN 1 ELSE IF v < 0 THEN -1 ELSE 0

\* C15: on a path of three or more points, segment 1 starts the clearance
\* PORTAL_OUTER_RADIUS + 2 away from the centre of the first cell towards the
\* second and ends at the second cell's centre; the last segment starts at a
\* centre and ends the clearance short of the last cell's centre; every other
\* segment joins the two centres; drawing and erasing use the same endpoints.
C15_SegmentEndpoints ==
  (call.fn = "segment" /\ Len(path) >= 3) =>
    LET i == call.index
        d == draws[1]
        a == Centre(path[i])
        b == Centre(path[i + 1])
        ux == Sign(b[1] - a[1])
        uy == Sign(b[2] - a[2])
        gap == PORTAL_OUTER_RADIUS + 2
    IN /\ Len(draws) = 1
       /\ d.op = "segment"
       /\ d.index = i
       /\ d.img \in {red_px, black_px}
       /\ <<d.x0, d.y0>> = IF i = 1 THEN <<a[1] + gap * ux, a[2] + gap * uy>> ELSE a
       /\ <<d.x1, d.y1>> = IF i = Len(path) - 1
                           THEN <<b[1] - gap * ux, b[2] - gap * uy>> ELSE b

\* the last of three segments is erased
C15_Witness ==
  /\ call.fn = "segment"
  /\ Len(path) = 4
  /\ call.index = 3
  /\ draws[1].img = black_px
  /\ draws[1].x1 # Centre(path[4])[1] \/ draws[1].y1 # Centre(path[4])[2]


\* C16: in every reachable state the progress lies between 0 and the number
\* of path points.
C16_ProgressInRange == path_progress \in 0..N

\* the whole path is shown and the theme has just been changed twice over
C16_Witness ==
  /\ N = 5 /\ animating /\ last_event = "tick" /\ path_progress = N
  /\ color_index # 0

\* C17: offset_point_towards with twice the same point returns that point,
\* whatever the offset, and returns normally.
C17_CoincidentPoints ==
  (call.fn = "offset" /\ call.done /\ call.x0 = call.x1 /\ call.y0 = call.y1) =>
    call.result = <<call.x0, call.y0>>

C17_Witness ==
  /\ call.fn = "offset" /\ call.done
  /\ call.x0 = -1 /\ call.x1 = -1 /\ call.y0 = 2 /\ call.y1 = 2
  /\ call.offset = PORTAL_OUTER_RADIUS + 2
  /\ call.result = <<-1, 2>>

\* C18: a tick that draws a segment draws exactly one, and comes at least
\* animation_speed after the previous tick that passed the rate limit (so
\* after the previous tick that drew), whatever keys came in between.
C18_TickDrawsSpaced ==
  [][ (loop_hook /\ draws' # << >>) =>
        /\ Len(draws') = 1
        /\ Len(SegmentsOf(draws')) = 1
        /\ now - last_update >= animation_speed
        /\ lastAccept # -1 => now - lastAccept >= animation_speed
        /\ lastAccept' = now ]_vars

\* the first erase of a second run, after the first run ended and the trigger
\* and a theme change came in between
C18_Witness ==
  /\ last_event = "tick" /\ Reverse /\ N = 2 /\ color_index # 0
  /\ SegmentsOf(draws) = <<1>> /\ lastAccept = now /\ progHist = <<2, 1>>

\* C19: animating and reverse_animating are never both true: the controller
\* is in exactly one of Idle, Forward, Reverse.
C19_OneMode ==
  /\ ~(animating /\ reverse_animating)
  /\ Cardinality({m \in {"I", "F", "R"} :
                    \/ m = "I" /\ Idle
                    \/ m = "F" /\ Forward
                    \/ m = "R" /\ Reverse}) = 1

\* the theme is changed while the second run, an erase pass, is under way
C19_Witness ==
  /\ Reverse /\ last_event = "c" /\ lastAccept # -1 /\ N >= 2

StepsOK ==
  call.fn = "line" =>
    /\ Len(call.pts) >= 1 => call.pts[1] = call.p0
    /\ call.done => Len(call.pts) >= 1
    /\ \A k \in 1..Len(call.pts) :
         (call.pts[k] = call.p1) <=> (call.done /\ k = Len(call.pts))

\* C20: draw_line_bresenham ends for every pair of points; the first point it
\* steps on is p0, the last one is p1, and it steps on p1 only then.
C20_Bresenham ==
  /\ []StepsOK
  /\ (call.fn = "line") ~> (call.fn = "line" /\ call.done)

\* a steep line drawn leftwards
C20_Witness ==
  /\ call.fn = "line" /\ call.done
  /\ call.p0 = <<2, 0>> /\ call.p1 = <<0, 3>>
  /\ Len(call.pts) = 4
  /\ call.pts[4] = <<0, 3>>


\* C21: at every stepped point the line makes one draw call at that point
\* when thickness <= 1, and otherwise one draw call for each pixel of the
\* square of side 2 * (thickness // 2) + 1 centred on the point, none twice;
\* thickness 4 and thickness 5 both give 25 draw calls.
C21_BrushSquare ==
  (call.fn = "line" /\ Len(call.pts) >= 1) =>
    LET c == call.pts[Len(call.pts)]
        th == call.thickness
        d == call.drawn
        t == th \div 2
        square == {<<c[1] + ox, c[2] + oy>> : ox \in (-t)..t, oy \in (-t)..t}
    IN IF th <= 1
       THEN d = << c >>
       ELSE /\ {d[k] : k \in 1..Len(d)} = square
            /\ Len(d) = Cardinality(square)
            /\ Len(d) = (2 * t + 1) * (2 * t + 1)
            /\ th \in {4, 5} => Len(d) = 25

\* the brush of the path line at the far end of a diagonal
C21_Witness ==
  /\ call.fn = "line" /\ call.done /\ call.thickness = LINE_THICKNESS
  /\ call.p0 = <<0, 0>> /\ call.p1 = <<2, 2>>
  /\ Len(call.drawn) = 25
  /\ call.drawn[1] = <<0, 0>> /\ call.drawn[25] = <<4, 4>>


Between(v, lo, hi) == (lo < v /\ v < hi) \/ (hi < v /\ v < lo)

\* C22: on a path of two points the only segment is shortened at both ends:
\* it starts the clearance away from the first centre towards the second and
\* ends the clearance short of the second centre, so the whole line lies
\* strictly between the two centres.
C22_TwoPointPath ==
  (call.fn = "segment" /\ Len(path) = 2) =>
    LET d == draws[1]
        a == Centre(path[1])
        b == Centre(path[2])
        ux == Sign(b[1] - a[1])
        uy == Sign(b[2] - a[2])
        gap == PORTAL_OUTER_RADIUS + 2
    IN /\ call.index = 1
       /\ d.index = 1
       /\ <<d.x0, d.y0>> = <<a[1] + gap * ux, a[2] + gap * uy>>
       /\ <<d.x1, d.y1>> = <<b[1] - gap * ux, b[2] - gap * uy>>
       /\ IF ux # 0
          THEN /\ Between(d.x0, a[1], b[1]) /\ Between(d.x1, a[1], b[1])
               /\ d.y0 = a[2] /\ d.y1 = a[2]
          ELSE /\ Between(d.y0, a[2], b[2]) /\ Between(d.y1, a[2], b[2])
               /\ d.x0 = a[1] /\ d.x1 = a[1]

\* the one segment of a westward two-point path, with the path pixel
C22_Witness ==
  /\ call.fn = "segment" /\ Len(path) = 2
  /\ entry = <<1, 1>> /\ path[2] = <<1, 0>>
  /\ draws[1].img = red_px
  /\ draws[1].x0 > draws[1].x1

\* C23: every segment draw call of a tick or of a redraw carries an index
\* from 1 to len(path) - 1, so both of its cells are path points; a path of
\* one point never has a segment drawn or erased.
C23_SegmentIndexInPath ==
  /\ \A k \in 1..Len(draws) :
       draws[k].op = "segment" => draws[k].index \in 1..(N - 1)
  /\ N = 1 => (SegmentsOf(draws) = << >> /\ visible = {})

\* the erase pass takes away the last segment of the longest path
C23_Witness ==
  /\ last_event = "tick" /\ Reverse /\ N = 5
  /\ SegmentsOf(draws) = <<4>> /\ draws[1].img = black_px


\* C24: if a tick past the rate limit is never put off for ever (a step of
\* loop_hook past the rate limit sets last_update to now, so weak fairness on
\* those steps says exactly that no tick stays pending), then a controller in
\* Forward or Reverse is Idle again at some later time, whatever keys are
\* pressed in between (closing the window ends the program).
C24_ReturnsToIdle ==
  ([]<>(~TickPending)) => ((running /\ ~Idle) ~> (Idle \/ ~running))


Max(a, b) == IF a >= b THEN a ELSE b

\* C25: the stepped points of a line are connected: each differs from the one
\* before by at most 1 in x and at most 1 in y and is not the same point; a
\* finished line has max(|x1-x0|, |y1-y0|) + 1 points; on a horizontal or
\* vertical segment every stepped point lies on the segment.
C25_ConnectedLine ==
  call.fn = "line" =>
    LET pts == call.pts
        most == Max(Abs(call.p1[1] - call.p0[1]), Abs(call.p1[2] - call.p0[2])) + 1
        Within(v, a, b) == (a <= v /\ v <= b) \/ (b <= v /\ v <= a)
    IN /\ \A k \in 1..(Len(pts) - 1) :
            /\ Abs(pts[k + 1][1] - pts[k][1]) <= 1
            /\ Abs(pts[k + 1][2] - pts[k][2]) <= 1
            /\ pts[k + 1] # pts[k]
       /\ Len(pts) <= most
       /\ call.done => Len(pts) = most
       /\ (call.p0[1] = call.p1[1] \/ call.p0[2] = call.p1[2]) =>
            \A k \in 1..Len(pts) :
              /\ Within(pts[k][1], call.p0[1], call.p1[1])
              /\ Within(pts[k][2], call.p0[2], call.p1[2])

\* a shallow line drawn upwards to the right, finished
C25_Witness ==
  /\ call.fn = "line" /\ call.done
  /\ call.p0 = <<0, 3>> /\ call.p1 = <<3, 1>>
  /\ Len(call.pts) = 4
  /\ call.pts[2][1] = 1 /\ call.pts[4] = <<3, 1>>

ThemeOK ==
  /\ color_index \in 0..(Len(COLOR_CYCLE) - 1)
  /\ current_color = COLOR_CYCLE[color_index + 1]
  /\ assets = assets_by_color[current_color]

\* C26: the colour index is always an index of COLOR_CYCLE, the current colour
\* is the cycle's entry at that index and the assets are that colour's; a
\* theme change moves the index on by one modulo the cycle's length; triggers,
\* ticks and the passing of time leave the theme alone.
C26_ThemeCycle ==
  /\ []ThemeOK
  /\ [][ /\ key_handler(KEY_C) =>
              color_index' = (color_index + 1) % Len(COLOR_CYCLE)
         /\ (key_handler(KEY_S) \/ loop_hook \/ Elapse) => UNCHANGED theme ]_vars

\* the third theme change of a running animation: the first theme is back
C26_Witness ==
  /\ last_event = "c" /\ animating
  /\ color_index = 0 /\ current_color = "green"
  /\ assets = assets_by_color["green"]


TypeOK ==
  /\ running \in BOOLEAN
  /\ now \in 1..MaxTime
  /\ path_progress \in Int
  /\ animating \in BOOLEAN
  /\ reverse_animating \in BOOLEAN
  /\ color_index \in 0..(Len(COLOR_CYCLE) - 1)
====
